---- MODULE Spec2Model ----
(***************************************************************************)
(* A model of the QTX -> OpenQASM 2.0 translator                           *)
(* (lib/Target/OpenQASM/TranslateToOpenQASM.cpp).                          *)
(*                                                                         *)
(* The translator walks an immutable module: module-level operations, the  *)
(* bodies of the circuit definitions, and last the body of the entry       *)
(* point.  Its only mutable state is the Emitter: the output stream, the   *)
(* value -> name table of the active scope and the name counter.           *)
(*                                                                         *)
(* The output stream is a sequence of tokens, one per `os << x` of the     *)
(* source (a formatv line is split at its arguments).                      *)
(***************************************************************************)
EXTENDS Integers, Sequences, FiniteSets, TLC

(***************************************************************************)
(* Bounds of the model.                                                    *)
(***************************************************************************)
\* Size of the input: module-level operations plus body operations.
MaxOps == 4
\* Largest wire array an allocation creates.
MaxSize == 2
\* Most control wires of an operator fed to the emitter.
MaxControls == 2
\* Control counts the gate name resolver is tried on: 0..MaxCtl.
MaxCtl == 4

(***************************************************************************)
(* Diagnostics, the strings of the emitError calls.                        *)
(***************************************************************************)
MultipleEntryMsg == "has multiple entrypoints"
NoEntryMsg == "does not contain an entrypoint"
ClassicalMsg == "cannot return classical results"
ArrayArgMsg == "Cannot translate array arguments into OpenQASM 2.0"
AdjointMsg == "cannot convert adjoint operations to OpenQASM 2.0"
GateNameMsg == "cannot convert operation to OpenQASM 2.0"
ParamMsg == "failed to emit parameters"
MzTargetsMsg == "cannot translate measurements with more than one target"
RuntimeIndexMsg == "cannot translate runtime index to OpenQASM 2.0"
UnhandledMsg == "unable to translate op to OpenQASM 2.0"

(***************************************************************************)
(* Gate name resolution.                                                   *)
(***************************************************************************)
\* Mutant: the single-control table lacks the ry case.
translateOperatorNameNoCry(qtxName, nControls) ==
  IF nControls = 0 THEN (IF qtxName = "r1" THEN "cu1" ELSE qtxName)
  ELSE IF nControls = 1 THEN
    CASE qtxName = "h" -> "ch"
      [] qtxName = "x" -> "cx"
      [] qtxName = "y" -> "cy"
      [] qtxName = "z" -> "cz"
      [] qtxName = "r1" -> "cu1"
      [] qtxName = "rx" -> "crx"
      [] qtxName = "rz" -> "crz"
      [] OTHER -> ""
  ELSE IF nControls = 2 THEN (IF qtxName = "x" THEN "ccx" ELSE "")
  ELSE ""

\* The name left in `name`; the empty string is the failure() return.
translateOperatorName(qtxName, nControls) ==
  IF nControls = 0 THEN (IF qtxName = "r1" THEN "cu1" ELSE qtxName)
  ELSE IF nControls = 1 THEN
    CASE qtxName = "h" -> "ch"
      [] qtxName = "x" -> "cx"
      [] qtxName = "y" -> "cy"
      [] qtxName = "z" -> "cz"
      [] qtxName = "r1" -> "cu1"
      [] qtxName = "rx" -> "crx"
      [] qtxName = "ry" -> "cry"
      [] qtxName = "rz" -> "crz"
      [] OTHER -> ""
  ELSE IF nControls = 2 THEN (IF qtxName = "x" THEN "ccx" ELSE "")
  ELSE ""

(***************************************************************************)
(* The output stream.  emitter.os is an indented stream: text written at   *)
(* the start of a line is preceded by the current indentation.             *)
(***************************************************************************)
Header == << "// Code generated by NVIDIA's nvq++ compiler\n",
             "OPENQASM 2.0;\n\n",
             "include \"qelib1.inc\";\n\n" >>

\* The tokens that end with a newline.
LineEnds == { Header[i] : i \in 1..Len(Header) } \cup {";\n", "];\n", " {\n", "}\n", "\n"}

IndentTok == "  "

AtLineStart(os) == os = <<>> \/ os[Len(os)] \in LineEnds

\* os << tok
Write(em, tok) ==
  IF em.indent > 0 /\ AtLineStart(em.os)
  THEN [em EXCEPT !.os = @ \o <<IndentTok, tok>>]
  ELSE [em EXCEPT !.os = Append(@, tok)]

RECURSIVE WriteAll(_, _)
WriteAll(em, toks) ==
  IF toks = <<>> THEN em ELSE WriteAll(Write(em, Head(toks)), Tail(toks))

\* os << double: the stream prints a double in exponent style.
FormatDouble(d) == ToString(d) \o ".000000e+00"

(***************************************************************************)
(* The Emitter's naming (cudaq/Target/Emitter.h): a table from values to   *)
(* names for the active scope and a counter that makes fresh names.        *)
(***************************************************************************)
NoName == <<>>

NewEmitter == [os |-> <<>>, indent |-> 0, valueToName |-> NoName, counter |-> 0]

Bound(em, v) == v \in DOMAIN em.valueToName

\* createName(prefix): a fresh symbol of the active scope.
createName(em, prefix) ==
  [name |-> prefix \o ToString(em.counter), em |-> [em EXCEPT !.counter = @ + 1]]

DefaultPrefix == "var"

\* getOrAssignName(value, name): the existing binding, or `name` bound now.
getOrAssignNameAs(em, v, name) ==
  IF Bound(em, v) THEN [name |-> em.valueToName[v], em |-> em]
  ELSE [name |-> name, em |-> [em EXCEPT !.valueToName = (v :> name) @@ @]]

\* getOrAssignName(value, name) given the result c of createName.
assignCreated(c, v) ==
  [name |-> c.name, em |-> [c.em EXCEPT !.valueToName = (v :> c.name) @@ @]]

\* getOrAssignName(value): the existing binding, or a fresh name bound now.
getOrAssignName(em, v) ==
  IF Bound(em, v) THEN [name |-> em.valueToName[v], em |-> em]
  ELSE assignCreated(createName(em, DefaultPrefix), v)

\* One step of mapValuesName: o is the old value's lookup.
mapValueName(o, new) == getOrAssignNameAs(o.em, new, o.name).em

\* mapValuesName(oldValues, newValues): each new value gets its old value's name.
RECURSIVE mapValuesName(_, _, _)
mapValuesName(em, olds, news) ==
  IF olds = <<>> \/ news = <<>> THEN em
  ELSE mapValuesName(mapValueName(getOrAssignName(em, Head(olds)), Head(news)),
                     Tail(olds), Tail(news))

\* Emitter::Scope: a naming context opened for one circuit body.
OpenScope(em) == [em EXCEPT !.valueToName = NoName, !.counter = 0]
CloseScope(em) == [em EXCEPT !.valueToName = NoName, !.counter = 0]

\* os << getOrAssignName(value), g being the lookup.
writeName(g) == Write(g.em, g.name)

Separated(em, first) == IF first THEN em ELSE Write(em, ", ")

\* llvm::interleaveComma(values, os, os << getOrAssignName(value))
RECURSIVE printNames(_, _, _)
printNames(em, vs, first) ==
  IF vs = <<>> THEN em
  ELSE printNames(writeName(getOrAssignName(Separated(em, first), Head(vs))),
                  Tail(vs), FALSE)

(***************************************************************************)
(* Results of a handler: the emitter after it and the LogicalResult, with  *)
(* the diagnostic of the emitError that made it fail.                      *)
(***************************************************************************)
Success(em) == [em |-> em, ok |-> TRUE, msg |-> ""]
Failure(em, msg) == [em |-> em, ok |-> FALSE, msg |-> msg]

\* A parameter operand: getParameterValueAsDouble gives its literal, or nothing.
NonLiteral == -1
IsLiteral(p) == p # NonLiteral

\* The lambda of printParameters on one parameter.
printParameter(em, p, isFailure) ==
  IF IsLiteral(p) THEN [em |-> Write(em, FormatDouble(p)), isFailure |-> isFailure]
  ELSE [em |-> em, isFailure |-> TRUE]

RECURSIVE printParameterList(_, _, _)
printParameterList(st, ps, first) ==
  IF ps = <<>> THEN st
  ELSE printParameterList(
         printParameter(Separated(st.em, first), Head(ps), st.isFailure),
         Tail(ps), FALSE)

closeParameters(st) ==
  [em |-> Write(st.em, ")"), ok |-> ~st.isFailure, msg |-> ""]

printParameters(em, parameters) ==
  IF parameters = <<>> THEN Success(em)
  ELSE closeParameters(
         printParameterList([em |-> Write(em, "("), isFailure |-> FALSE], parameters, TRUE))

Indexed(name, i) == name \o "[" \o ToString(i) \o "]"

\* Mutant: the register is declared with one bit whatever the vector's width.
declareClassicalOneBit(c, bits, vecSize) ==
  getOrAssignNameAs(
    WriteAll(c.em, <<"creg ", c.name, "[", ToString(1), "];\n">>),
    bits,
    IF vecSize > 0 THEN c.name ELSE c.name \o "[0]")

\* printClassicalAllocation after createName: creg name[size]; and the binding.
declareClassical(c, bits, vecSize) ==
  getOrAssignNameAs(
    WriteAll(c.em, <<"creg ", c.name, "[", ToString(IF vecSize > 0 THEN vecSize ELSE 1),
                     "];\n">>),
    bits,
    IF vecSize > 0 THEN c.name ELSE c.name \o "[0]")

printClassicalAllocation(em, bits, vecSize) ==
  declareClassical(createName(em, DefaultPrefix), bits, vecSize)

(***************************************************************************)
(* The handlers, one per operation kind.  An operation is a record: its    *)
(* kind, its operands and its results (value identifiers).                 *)
(***************************************************************************)
\* Mutant: a single wire is bound to the register's name, not to its element 0.
declareQuantumBare(c, op) ==
  getOrAssignNameAs(
    WriteAll(c.em, <<"qreg ", c.name, "[", ToString(IF op.isArray THEN op.size ELSE 1),
                     "];\n">>),
    op.res, c.name)

\* The alloca handler after createName: qreg name[size]; and the binding.
declareQuantum(c, op) ==
  getOrAssignNameAs(
    WriteAll(c.em, <<"qreg ", c.name, "[", ToString(IF op.isArray THEN op.size ELSE 1),
                     "];\n">>),
    op.res,
    IF ~op.isArray THEN c.name \o "[0]" ELSE c.name)

emitAllocaOp(em, op) ==
  Success(declareQuantum(createName(em, DefaultPrefix), op).em)

applyParameters(em, op) ==
  IF op.params # <<>> THEN Write(printNames(Write(em, "("), op.params, TRUE), ")")
  ELSE em

applyTargets(em, op) ==
  Write(mapValuesName(printNames(Write(em, " "), op.targets, TRUE),
                      op.targets, op.newTargets),
        ";\n")

emitApplyOp(em, op) ==
  IF op.nClassical > 0 THEN Failure(em, ClassicalMsg)
  ELSE Success(applyTargets(applyParameters(Write(em, op.callee), op), op))

\* The lambda of the circuit handler on one formal, c being the created name.
bindFormal(c, v) == Write(getOrAssignNameAs(c.em, v, c.name).em, c.name)

\* llvm::interleaveComma over the formals of a circuit: a fresh name each.
RECURSIVE printFormals(_, _, _, _)
printFormals(em, vs, prefix, first) ==
  IF vs = <<>> THEN em
  ELSE printFormals(bindFormal(createName(Separated(em, first), prefix), Head(vs)),
                    Tail(vs), prefix, FALSE)

IndentStep == 2

circuitParameters(em, c) ==
  IF c.params # <<>> THEN Write(printFormals(Write(em, "("), c.params, "param", TRUE), ")")
  ELSE em

circuitTargets(em, c) ==
  Write(printFormals(Write(em, " "), c.targets, "q", TRUE), " {\n")

Indented(em) == [em EXCEPT !.indent = @ + IndentStep]
Unindented(em) == [em EXCEPT !.indent = @ - IndentStep]

\* emitOperation(CircuitOp) up to the loop over the body.
emitCircuitOpHead(em, c) ==
  IF c.classical THEN Failure(em, ClassicalMsg)
  ELSE IF \E i \in 1..Len(c.targetTypes) : c.targetTypes[i] = "array"
  THEN Failure(em, ArrayArgMsg)
  ELSE Success(Indented(
         circuitTargets(
           circuitParameters(Write(Write(OpenScope(em), "gate "), c.name), c), c)))

\* emitOperation(CircuitOp) after the loop over the body.
emitCircuitOpTail(em) == CloseScope(Write(Unindented(em), "}\n"))

operatorControls(em, op) ==
  IF op.controls # <<>>
  THEN Write(printNames(Write(em, " "), op.controls, TRUE), ",")
  ELSE em

\* Mutant: the targets' names are not forwarded to the new targets.
operatorTargetsUnmapped(em, op) ==
  Write(printNames(Write(em, " "), op.targets, TRUE), ";\n")

operatorTargets(em, op) ==
  mapValuesName(Write(printNames(Write(em, " "), op.targets, TRUE), ";\n"),
                op.targets, op.newTargets)

\* Mutant: the operands are printed although the parameters failed.
operatorOperandsAnyway(pp, op) ==
  [em |-> operatorTargets(operatorControls(pp.em, op), op), ok |-> pp.ok,
   msg |-> IF pp.ok THEN "" ELSE ParamMsg]

\* The operator handler from the result pp of printParameters on.
operatorOperands(pp, op) ==
  IF ~pp.ok THEN Failure(pp.em, ParamMsg)
  ELSE Success(operatorTargets(operatorControls(pp.em, op), op))

\* The operator handler from the result of translateOperatorName on.
operatorNamed(em, name, op) ==
  IF name = "" THEN Failure(em, GateNameMsg)
  ELSE operatorOperands(printParameters(Write(Write(em, name), " "), op.params), op)

emitOperator(em, op) ==
  IF op.adj THEN Failure(em, AdjointMsg)
  ELSE operatorNamed(em, translateOperatorName(op.name, Len(op.controls)), op)

\* The measurement handler once the wire w is looked up.
measureWire(w, bitsName, op) ==
  mapValuesName(WriteAll(w.em, <<w.name, " -> ", bitsName, ";\n">>),
                op.targets, op.newTargets)

\* The measurement handler from the result b of printClassicalAllocation on.
measureInto(b, op) ==
  measureWire(getOrAssignName(Write(b.em, "measure "), op.targets[1]), b.name, op)

\* Mutant: the classical register is declared before the targets are counted.
emitMzOpDeclareFirst(em, op) ==
  IF Len(op.targets) > 1
  THEN Failure(printClassicalAllocation(em, op.bits, op.vecSize).em, MzTargetsMsg)
  ELSE Success(measureInto(printClassicalAllocation(em, op.bits, op.vecSize), op))

emitMzOp(em, op) ==
  IF Len(op.targets) > 1 THEN Failure(em, MzTargetsMsg)
  ELSE Success(measureInto(printClassicalAllocation(em, op.bits, op.vecSize), op))

resetWire(w) == WriteAll(w.em, <<w.name, ";">>)

RECURSIVE printResets(_, _)
printResets(em, targets) ==
  IF targets = <<>> THEN em
  ELSE printResets(resetWire(getOrAssignName(Write(em, "reset "), Head(targets))),
                   Tail(targets))

\* Mutant: only the first target is reset.
emitResetOpFirstOnly(em, op) ==
  Success(mapValuesName(printResets(em, <<Head(op.targets)>>), op.targets, op.newTargets))

emitResetOp(em, op) ==
  Success(mapValuesName(printResets(em, op.targets), op.targets, op.newTargets))

\* Mutant: the index is not advanced, every wire is named as element i.
RECURSIVE nameSplitWiresStuck(_, _, _, _)
nameSplitWiresStuck(em, arrayName, wires, i) ==
  IF wires = <<>> THEN em
  ELSE nameSplitWiresStuck(getOrAssignNameAs(em, Head(wires), Indexed(arrayName, i)).em,
                           arrayName, Tail(wires), i)

RECURSIVE nameSplitWires(_, _, _, _)
nameSplitWires(em, arrayName, wires, i) ==
  IF wires = <<>> THEN em
  ELSE nameSplitWires(getOrAssignNameAs(em, Head(wires), Indexed(arrayName, i)).em,
                      arrayName, Tail(wires), i + 1)

splitNamed(a, op) == nameSplitWires(a.em, a.name, op.wires, 0)

emitArraySplitOp(em, op) == Success(splitNamed(getOrAssignName(em, op.array), op))

\* The loop of the borrow handler; ok is FALSE when an index is no constant.
RECURSIVE nameBorrowedWires(_, _, _, _)
nameBorrowedWires(em, arrayName, indices, wires) ==
  IF indices = <<>> \/ wires = <<>> THEN Success(em)
  ELSE IF ~IsLiteral(Head(indices)) THEN Failure(em, RuntimeIndexMsg)
  ELSE nameBorrowedWires(
         getOrAssignNameAs(em, Head(wires), Indexed(arrayName, Head(indices))).em,
         arrayName, Tail(indices), Tail(wires))

borrowNamed(a, op) == nameBorrowedWires(a.em, a.name, op.indices, op.wires)

\* The borrow handler after its loop, r being the loop's result.
borrowForward(r, op) ==
  IF ~r.ok THEN r ELSE Success(mapValuesName(r.em, <<op.array>>, <<op.newArray>>))

emitArrayBorrowOp(em, op) ==
  borrowForward(borrowNamed(getOrAssignName(em, op.array), op), op)

emitArrayYieldOp(em, op) ==
  Success(mapValuesName(em, <<op.array>>, <<op.newArray>>))

\* emitOperation(Emitter&, Operation&): the TypeSwitch over the kinds.
emitOperation(em, op) ==
  CASE op.kind = "alloca" -> emitAllocaOp(em, op)
    [] op.kind = "apply" -> emitApplyOp(em, op)
    [] op.kind = "array_split" -> emitArraySplitOp(em, op)
    [] op.kind = "array_borrow" -> emitArrayBorrowOp(em, op)
    [] op.kind = "array_yield" -> emitArrayYieldOp(em, op)
    [] op.kind = "operator" -> emitOperator(em, op)
    [] op.kind = "mz" -> emitMzOp(em, op)
    [] op.kind = "reset" -> emitResetOp(em, op)
    [] op.kind = "dealloc" -> Success(em)
    [] op.kind = "return" -> Success(em)
    [] op.kind = "constant" -> Success(em)
    [] OTHER -> IF op.dialect = "llvm" THEN Success(em)
                ELSE Failure(em, UnhandledMsg)

(***************************************************************************)
(* The module-level control flow.                                          *)
(***************************************************************************)
Step(em, entryPoint, next, msg) ==
  [em |-> em, entryPoint |-> entryPoint, next |-> next, msg |-> msg]

\* The module's loop after a circuit definition's head: its body is next.
circuitStep(r, entryPoint) ==
  Step(r.em, entryPoint, IF r.ok THEN "body" ELSE "fail", r.msg)

\* The module's loop after an operation that is no circuit definition.
otherStep(r, entryPoint) ==
  IF r.ok THEN Step(Write(r.em, "\n"), entryPoint, "continue", "")
  ELSE Step(r.em, entryPoint, "fail", r.msg)

\* One iteration of the loop of emitOperation(ModuleOp): what the loop does
\* next.  entryPoint is 0 for nullptr, else the position of the circuit it
\* points to.
moduleVisit(em, entryPoint, op, at) ==
  IF op.marked
  THEN IF entryPoint # 0
       THEN Step(em, entryPoint, "fail", MultipleEntryMsg)
       ELSE Step(em, IF op.kind = "circuit" THEN at ELSE 0, "continue", "")
  ELSE IF op.kind = "circuit" THEN circuitStep(emitCircuitOpHead(em, op), entryPoint)
  ELSE otherStep(emitOperation(em, op), entryPoint)

\* Mutant: the entry point's body is opened the way a gate's is, header and all.
moduleFinishAsGate(em, entryPoint, entry) ==
  IF entryPoint = 0
  THEN [em |-> em, next |-> "fail", msg |-> NoEntryMsg]
  ELSE [em |-> Indented(circuitTargets(
                 circuitParameters(Write(Write(OpenScope(em), "gate "), entry.name), entry),
                 entry)),
        next |-> "entry", msg |-> ""]

\* After the loop: the entry point check and the scope of emitEntryPoint.
moduleFinish(em, entryPoint, entry) ==
  IF entryPoint = 0
  THEN [em |-> em, next |-> "fail", msg |-> NoEntryMsg]
  ELSE [em |-> OpenScope(em), next |-> "entry", msg |-> ""]

\* Mutant: the loop over a body goes on after a failed operation.
bodyStepKeepGoing(r) == [em |-> r.em, next |-> "continue", msg |-> r.msg]

\* The loop over a circuit body (emitEntryPoint, CircuitOp) after one operation.
bodyStep(r) ==
  IF ~r.ok THEN [em |-> r.em, next |-> "fail", msg |-> r.msg]
  ELSE [em |-> r.em, next |-> "continue", msg |-> ""]

bodyVisit(em, op) == bodyStep(emitOperation(em, op))

(***************************************************************************)
(* The input: the module, and the operations of the circuit bodies.        *)
(***************************************************************************)
\* Most module-level operations of the module.
MaxModule == 2

Circuit(marked, classical, targetTypes, nParams) ==
  [kind |-> "circuit", dialect |-> "qtx", marked |-> marked, name |-> "",
   classical |-> classical, targetTypes |-> targetTypes, nParams |-> nParams,
   params |-> <<>>, targets |-> <<>>]

Other(kind, dialect, marked) ==
  [kind |-> kind, dialect |-> dialect, marked |-> marked, name |-> "",
   classical |-> FALSE, targetTypes |-> <<>>, nParams |-> 0,
   params |-> <<>>, targets |-> <<>>]

\* The shapes of the module-level operations.
Shapes ==
  { Circuit(FALSE, FALSE, <<"wire">>, 1),
    Circuit(FALSE, TRUE, <<"wire">>, 0),
    Circuit(FALSE, FALSE, <<"wire", "array">>, 0),
    Circuit(TRUE, TRUE, <<>>, 0),
    Other("func", "func", TRUE),
    Other("global", "llvm", FALSE) }

\* Symbol names are unique in a module: the operation at position i is k<i>.
Named(shapes) ==
  [i \in 1..Len(shapes) |-> [shapes[i] EXCEPT !.name = "k" \o ToString(i)]]

Modules == UNION { { Named(m) : m \in [1..n -> Shapes] } : n \in 0..MaxModule }

\* Types of values: wires, wire arrays, and classical values (n = 1 when the
\* value is a constant).
WireT == [k |-> "wire", n |-> 1]
ArrayT(n) == [k |-> "array", n |-> n]
ClassicalT(const) == [k |-> "classical", n |-> IF const THEN 1 ELSE 0]
BitsT(n) == [k |-> "bits", n |-> n]

FormalT(t) == IF t = "array" THEN ArrayT(MaxSize) ELSE WireT

\* The formals of a circuit are the first values of its body: parameters,
\* then targets.
WithFormals(c) ==
  [c EXCEPT !.params = [i \in 1..c.nParams |-> i],
            !.targets = [i \in 1..Len(c.targetTypes) |-> c.nParams + i]]

FormalTypes(c) ==
  [v \in 1..(c.nParams + Len(c.targetTypes)) |->
     IF v <= c.nParams THEN ClassicalT(FALSE) ELSE FormalT(c.targetTypes[v - c.nParams])]

OfKind(live, k) == { v \in DOMAIN live : live[v].k = k }

\* Sequences of n distinct elements of S.
DistinctSeqs(S, n) ==
  { q \in [1..n -> S] : \A i, j \in 1..n : i # j => q[i] # q[j] }

Fresh(nv, n) == [i \in 1..n |-> nv + i - 1]

\* The operators the bodies use, each with its parameter operands: x takes no
\* parameter, rz one, u2 two.  1 stands for a constant, NonLiteral for a value
\* that is none.
GateUses ==
  { [name |-> "x", params |-> <<>>],
    [name |-> "rz", params |-> <<1>>],
    [name |-> "rz", params |-> <<NonLiteral>>],
    [name |-> "u2", params |-> <<1, NonLiteral>>] }

AllocaOps(live, nv) ==
  { [kind |-> "alloca", dialect |-> "qtx", isArray |-> FALSE, size |-> 1, res |-> nv] }
  \cup { [kind |-> "alloca", dialect |-> "qtx", isArray |-> TRUE, size |-> n, res |-> nv]
         : n \in {1, MaxSize} }

OperatorOps(live, nv) ==
  { op \in
      { [kind |-> "operator", dialect |-> "qtx", name |-> g.name, adj |-> a,
         controls |-> cs, targets |-> <<t>>, newTargets |-> <<nv>>, params |-> g.params]
        : g \in GateUses, a \in BOOLEAN,
          cs \in UNION { DistinctSeqs(OfKind(live, "wire"), n) : n \in 0..MaxControls },
          t \in OfKind(live, "wire") }
    : \A i \in 1..Len(op.controls) : op.controls[i] # op.targets[1] }

ApplyOps(live, nv) ==
  { [kind |-> "apply", dialect |-> "qtx", callee |-> "callee", nClassical |-> c,
     params |-> ps, targets |-> <<t>>, newTargets |-> <<nv>>]
    : c \in {0, 1},
      ps \in {<<>>} \cup { <<p>> : p \in OfKind(live, "classical") },
      t \in OfKind(live, "wire") }

\* A measurement of one wire gives a bit, of one array a vector of bits.
MzOps(live, nv) ==
  { [kind |-> "mz", dialect |-> "qtx", targets |-> <<t>>, newTargets |-> <<nv>>,
     bits |-> nv + 1, vecSize |-> IF live[t].k = "array" THEN live[t].n ELSE 0]
    : t \in OfKind(live, "wire") \cup OfKind(live, "array") }
  \cup { [kind |-> "mz", dialect |-> "qtx", targets |-> ts, newTargets |-> Fresh(nv, 2),
          bits |-> nv + 2, vecSize |-> 2]
         : ts \in DistinctSeqs(OfKind(live, "wire"), 2) }

ResetOps(live, nv) ==
  { [kind |-> "reset", dialect |-> "qtx", targets |-> ts, newTargets |-> Fresh(nv, Len(ts))]
    : ts \in DistinctSeqs(OfKind(live, "wire"), 1) \cup DistinctSeqs(OfKind(live, "wire"), 2) }

ArraySplitOps(live, nv) ==
  { [kind |-> "array_split", dialect |-> "qtx", array |-> a, wires |-> Fresh(nv, live[a].n)]
    : a \in OfKind(live, "array") }

\* Index operands of a borrow from an array of n wires: constants within the
\* array, or values that are no constants.
IndexLists(n) ==
  { <<k>> : k \in 0..(n - 1) } \cup { <<NonLiteral>> }
  \cup { <<k, NonLiteral>> : k \in 0..(n - 1) }

ArrayBorrowOps(live, nv) ==
  UNION { { [kind |-> "array_borrow", dialect |-> "qtx", array |-> a, indices |-> ix,
             wires |-> Fresh(nv, Len(ix)), newArray |-> nv + Len(ix)]
            : ix \in IndexLists(live[a].n) }
          : a \in OfKind(live, "array") }

ArrayYieldOps(live, nv) ==
  { [kind |-> "array_yield", dialect |-> "qtx", array |-> a, wires |-> <<w>>,
     newArray |-> nv]
    : a \in OfKind(live, "array"), w \in OfKind(live, "wire") }

\* The kinds the dispatcher lets pass without a handler.
IgnoredOps(live, nv) ==
  { [kind |-> "dealloc", dialect |-> "qtx", operand |-> v]
    : v \in OfKind(live, "wire") \cup OfKind(live, "array") }
  \cup { [kind |-> "return", dialect |-> "qtx"],
         [kind |-> "constant", dialect |-> "arith", res |-> nv],
         [kind |-> "call", dialect |-> "llvm"] }

UnhandledOps(live, nv) == { [kind |-> "call", dialect |-> "func"] }

\* The values an operation uses up, and the values it defines.
Consumed(op) ==
  CASE op.kind \in {"operator", "apply", "mz", "reset"} ->
         { op.targets[i] : i \in 1..Len(op.targets) }
    [] op.kind = "array_split" -> {op.array}
    [] op.kind = "array_borrow" -> {op.array}
    [] op.kind = "array_yield" -> {op.array} \cup { op.wires[i] : i \in 1..Len(op.wires) }
    [] op.kind = "dealloc" -> {op.operand}
    [] OTHER -> {}

SeqTypes(vs, ty) == [v \in { vs[i] : i \in 1..Len(vs) } |-> ty]

Defined(op, live) ==
  CASE op.kind = "alloca" ->
         (op.res :> (IF op.isArray THEN ArrayT(op.size) ELSE WireT))
    [] op.kind \in {"operator", "apply", "reset"} ->
         [v \in { op.newTargets[i] : i \in 1..Len(op.newTargets) } |->
            live[op.targets[CHOOSE i \in 1..Len(op.targets) : op.newTargets[i] = v]]]
    [] op.kind = "mz" ->
         [v \in { op.newTargets[i] : i \in 1..Len(op.newTargets) } |->
            live[op.targets[CHOOSE i \in 1..Len(op.targets) : op.newTargets[i] = v]]]
         @@ (op.bits :> BitsT(op.vecSize))
    [] op.kind = "array_split" -> SeqTypes(op.wires, WireT)
    [] op.kind = "array_borrow" ->
         SeqTypes(op.wires, WireT) @@ (op.newArray :> live[op.array])
    [] op.kind = "array_yield" -> (op.newArray :> live[op.array])
    [] op.kind = "constant" -> (op.res :> ClassicalT(TRUE))
    [] OTHER -> <<>>

\* The values in scope after an operation.
After(live, op) ==
  LET d == Defined(op, live)
  IN [v \in (DOMAIN live \ Consumed(op)) \cup DOMAIN d |->
        IF v \in DOMAIN d THEN d[v] ELSE live[v]]

(***************************************************************************)
(* The state.                                                              *)
(***************************************************************************)
VARIABLES
  module,      \* the module under translation (never changes)
  pc,          \* where the translation is: start, module, gate, entry, done
  pos,         \* position in the module of the operation the loop is at
  emitter,     \* the Emitter
  entryPoint,  \* the entryPoint variable of emitOperation(ModuleOp)
  result,      \* what translateToOpenQASM returned: none yet, success, failure
  diags,       \* the diagnostics emitted by emitError, in order
  live,        \* the values of the current body that are defined and not used up
  nextVal,     \* the next value identifier of the current body
  nBody,       \* body operations visited so far
  prevOs,      \* the output as it was when the last operation was visited
  lastOp,      \* the last operation visited: whether a legality rule rejects it
  fwd,         \* pairs <<new value, name its old value had>> of the current scope
  loc,         \* value -> <<root value, index>>: the storage a value stands for
  decl,        \* allocated root value -> <<register name, size>> as written to the
               \* output, and the size the allocation asked for
  stmts,       \* the statements the operations visited so far stand for
  entryStart,  \* length of the output when the entry point's body was begun
  optor,       \* gate name resolution alone: the operator given
  name         \* gate name resolution alone: the name returned, or "?" before the call

vars == << module, pc, pos, emitter, entryPoint, result, diags, live, nextVal, nBody,
           prevOs, lastOp, fwd, loc, decl, stmts, entryStart, optor, name >>

input == << module, optor, name >>

HandledKinds == {"alloca", "apply", "array_split", "array_borrow", "array_yield",
                 "operator", "mz", "reset", "dealloc", "return", "constant", "circuit"}

\* The operations the legality rules reject.
IsIllegal(op) ==
  \/ op.kind = "operator" /\ op.adj
  \/ op.kind = "apply" /\ op.nClassical > 0
  \/ op.kind = "mz" /\ Len(op.targets) > 1
  \/ op.kind = "array_borrow" /\ \E i \in 1..Len(op.indices) : op.indices[i] = NonLiteral
  \/ op.kind = "circuit"
       /\ (op.classical \/ \E i \in 1..Len(op.targetTypes) : op.targetTypes[i] = "array")
  \/ op.kind \notin HandledKinds /\ op.dialect # "llvm"

\* The forwarded values of an operation: <<old, new>> pairs.
Forwards(op) ==
  CASE op.kind \in {"operator", "apply", "mz", "reset"} ->
         { <<op.targets[i], op.newTargets[i]>> : i \in 1..Len(op.targets) }
    [] op.kind \in {"array_borrow", "array_yield"} -> { <<op.array, op.newArray>> }
    [] OTHER -> {}

\* The storage of the values an operation defines.
Places(op, l) ==
  CASE op.kind = "alloca" -> (op.res :> <<op.res, IF op.isArray THEN -1 ELSE 0>>)
    [] op.kind \in {"operator", "apply", "reset"} ->
         [v \in { p[2] : p \in Forwards(op) } |->
            l[(CHOOSE p \in Forwards(op) : p[2] = v)[1]]]
    [] op.kind = "mz" ->
         [v \in { p[2] : p \in Forwards(op) } |->
            l[(CHOOSE p \in Forwards(op) : p[2] = v)[1]]]
         @@ (op.bits :> <<op.bits, -1>>)
    [] op.kind = "array_split" ->
         [v \in { op.wires[i] : i \in 1..Len(op.wires) } |->
            <<l[op.array][1], (CHOOSE i \in 1..Len(op.wires) : op.wires[i] = v) - 1>>]
    [] op.kind = "array_borrow" ->
         [v \in { op.wires[i] : i \in 1..Len(op.wires) } |->
            <<l[op.array][1], op.indices[CHOOSE i \in 1..Len(op.wires) : op.wires[i] = v]>>]
         @@ (op.newArray :> l[op.array])
    [] op.kind = "array_yield" -> (op.newArray :> l[op.array])
    [] op.kind = "constant" -> (op.res :> <<op.res, -1>>)
    [] OTHER -> <<>>

\* The register an allocation declared, read back from the output it wrote.
Declared(op, os, from) ==
  IF op.kind # "alloca" THEN <<>>
  ELSE LET j == CHOOSE j \in (from + 1)..Len(os) : os[j] = "qreg "
       IN (op.res :> <<os[j + 1], os[j + 3], IF op.isArray THEN op.size ELSE 1>>)

\* The statements an operation stands for.
Statements(op) ==
  CASE op.kind = "alloca" -> <<"qreg">>
    [] op.kind = "operator" -> <<"gate">>
    [] op.kind = "apply" -> <<"call">>
    [] op.kind = "mz" -> <<"creg", "measure">>
    [] op.kind = "reset" -> [i \in 1..Len(op.targets) |-> "reset"]
    [] OTHER -> <<>>

NoOp == [illegal |-> FALSE]

Init ==
  /\ module \in Modules
  /\ pc = "start"
  /\ pos = 1
  /\ emitter = NewEmitter
  /\ entryPoint = 0
  /\ result = "none"
  /\ diags = <<>>
  /\ live = <<>>
  /\ nextVal = 1
  /\ nBody = 0
  /\ prevOs = <<>>
  /\ lastOp = NoOp
  /\ fwd = {}
  /\ loc = <<>>
  /\ decl = <<>>
  /\ stmts = <<>>
  /\ entryStart = 0
  /\ optor = [name |-> "", controls |-> 0]
  /\ name = ""

\* translateToOpenQASM returns failure: the scope in use is left.
Fail(em, msg) ==
  /\ emitter' = CloseScope(em)
  /\ diags' = Append(diags, msg)
  /\ result' = "failure"
  /\ pc' = "done"
  /\ UNCHANGED << pos, entryPoint, live, nextVal, fwd, loc, decl, stmts, entryStart >>

\* A body is entered: its formals are the values in scope.
EnterBody(c) ==
  /\ live' = FormalTypes(c)
  /\ nextVal' = c.nParams + Len(c.targetTypes) + 1
  /\ fwd' = {}
  /\ loc' = [v \in 1..(c.nParams + Len(c.targetTypes)) |-> <<v, -1>>]
  /\ decl' = <<>>

\* emitOperation(ModuleOp), up to its loop: the header.
Start ==
  /\ pc = "start"
  /\ emitter' = WriteAll(emitter, Header)
  /\ pc' = "module"
  /\ prevOs' = emitter.os
  /\ UNCHANGED << input, pos, entryPoint, result, diags, live, nextVal, nBody, lastOp,
                  fwd, loc, decl, stmts, entryStart >>

\* The loop of emitOperation(ModuleOp) visits the operation at pos.
ModuleOp ==
  /\ pc = "module"
  /\ pos <= Len(module)
  /\ \E op \in {WithFormals(module[pos])} :
     \E r \in {moduleVisit(emitter, entryPoint, op, pos)} :
        /\ prevOs' = emitter.os
        /\ lastOp' = IF op.marked THEN NoOp
                     ELSE [illegal |-> IsIllegal(op)]
        /\ CASE r.next = "fail" -> Fail(r.em, r.msg)
             [] r.next = "body" ->
                  /\ emitter' = r.em
                  /\ pc' = "gate"
                  /\ EnterBody(op)
                  /\ UNCHANGED << pos, entryPoint, result, diags, stmts, entryStart >>
             [] OTHER ->
                  /\ emitter' = r.em
                  /\ entryPoint' = r.entryPoint
                  /\ pos' = pos + 1
                  /\ UNCHANGED << pc, result, diags, live, nextVal, fwd, loc, decl, stmts,
                                  entryStart >>
  /\ UNCHANGED << input, nBody >>

\* The body of a circuit definition is over: the gate block is closed and the
\* module's loop goes on.
GateEnd ==
  /\ pc = "gate"
  /\ emitter' = Write(emitCircuitOpTail(emitter), "\n")
  /\ pc' = "module"
  /\ pos' = pos + 1
  /\ live' = <<>>
  /\ fwd' = {}
  /\ loc' = <<>>
  /\ decl' = <<>>
  /\ UNCHANGED << input, entryPoint, result, diags, nextVal, nBody, prevOs, lastOp, stmts,
                  entryStart >>

\* The module's loop is over: the entry point is looked for and entered.
ModuleEnd ==
  /\ pc = "module"
  /\ pos > Len(module)
  /\ \E entry \in {IF entryPoint = 0 THEN NoOp ELSE WithFormals(module[entryPoint])} :
     \E r \in {moduleFinish(emitter, entryPoint, entry)} :
        /\ prevOs' = emitter.os
        /\ lastOp' = NoOp
        /\ IF r.next = "fail" THEN Fail(r.em, r.msg)
           ELSE /\ emitter' = r.em
                /\ pc' = "entry"
                /\ EnterBody(entry)
                /\ entryStart' = Len(emitter.os)
                /\ UNCHANGED << pos, entryPoint, result, diags, stmts >>
  /\ UNCHANGED << input, nBody >>

\* The entry point's body is over: the translation succeeded.
EntryEnd ==
  /\ pc = "entry"
  /\ emitter' = CloseScope(emitter)
  /\ result' = "success"
  /\ pc' = "done"
  /\ UNCHANGED << input, pos, entryPoint, diags, live, nextVal, nBody, prevOs, lastOp, fwd,
                  loc, decl, stmts, entryStart >>

\* The loop over a body visits the next operation of the body.
Visit(op) ==
  /\ pc \in {"gate", "entry"}
  /\ Len(module) + nBody < MaxOps
  /\ nBody' = nBody + 1
  /\ prevOs' = emitter.os
  /\ lastOp' = [illegal |-> IsIllegal(op)]
  /\ \E r \in {bodyVisit(emitter, op)} :
        IF r.next = "fail" THEN Fail(r.em, r.msg)
        ELSE /\ emitter' = r.em
             /\ diags' = IF r.msg = "" THEN diags ELSE Append(diags, r.msg)
             /\ live' = After(live, op)
             /\ nextVal' = nextVal + Cardinality(DOMAIN Defined(op, live))
             /\ fwd' = fwd \cup
                  { << p[2], IF Bound(emitter, p[1]) THEN emitter.valueToName[p[1]]
                             ELSE r.em.valueToName[p[1]] >> : p \in Forwards(op) }
             /\ loc' = Places(op, loc) @@ loc
             /\ decl' = Declared(op, r.em.os, Len(emitter.os)) @@ decl
             /\ stmts' = stmts \o Statements(op)
             /\ UNCHANGED << pc, pos, entryPoint, result, entryStart >>
  /\ UNCHANGED input

Alloca == \E op \in AllocaOps(live, nextVal) : Visit(op)
Operator == \E op \in OperatorOps(live, nextVal) : Visit(op)
Apply == \E op \in ApplyOps(live, nextVal) : Visit(op)
Mz == \E op \in MzOps(live, nextVal) : Visit(op)
Reset == \E op \in ResetOps(live, nextVal) : Visit(op)
ArraySplit == \E op \in ArraySplitOps(live, nextVal) : Visit(op)
ArrayBorrow == \E op \in ArrayBorrowOps(live, nextVal) : Visit(op)
ArrayYield == \E op \in ArrayYieldOps(live, nextVal) : Visit(op)
Ignored == \E op \in IgnoredOps(live, nextVal) : Visit(op)
Unhandled == \E op \in UnhandledOps(live, nextVal) : Visit(op)

Next ==
  \/ Start
  \/ ModuleOp
  \/ GateEnd
  \/ ModuleEnd
  \/ EntryEnd
  \/ Alloca
  \/ Operator
  \/ Apply
  \/ Mz
  \/ Reset
  \/ ArraySplit
  \/ ArrayBorrow
  \/ ArrayYield
  \/ Ignored
  \/ Unhandled

Spec == Init /\ [][Next]_vars

(***************************************************************************)
(* Gate name resolution alone: translateOperatorName on an operator with   *)
(* a given name and number of controls.                                    *)
(***************************************************************************)
QtxNames == {"h", "x", "y", "z", "r1", "rx", "ry", "rz", "s", "t", "swap", "u2", "u3"}

InitNames ==
  /\ module = <<>>
  /\ pc = "resolve"
  /\ pos = 1
  /\ emitter = NewEmitter
  /\ entryPoint = 0
  /\ result = "none"
  /\ diags = <<>>
  /\ live = <<>>
  /\ nextVal = 1
  /\ nBody = 0
  /\ prevOs = <<>>
  /\ lastOp = NoOp
  /\ fwd = {}
  /\ loc = <<>>
  /\ decl = <<>>
  /\ stmts = <<>>
  /\ entryStart = 0
  /\ optor \in [name : QtxNames, controls : 0..MaxCtl]
  /\ name = ""

Resolve ==
  /\ pc = "resolve"
  /\ name' = translateOperatorName(optor.name, optor.controls)
  /\ pc' = "resolved"
  /\ UNCHANGED << module, pos, emitter, entryPoint, result, diags, live, nextVal, nBody,
                  prevOs, lastOp, fwd, loc, decl, stmts, entryStart, optor >>

SpecNames == InitNames /\ [][Resolve]_vars

(***************************************************************************)
(* Properties.                                                             *)
(***************************************************************************)
Last(q) == q[Len(q)]
InBody == pc \in {"gate", "entry"}
Markers == Cardinality({ i \in 1..Len(module) : module[i].marked })
Written == SelectSeq(SubSeq(emitter.os, Len(prevOs) + 1, Len(emitter.os)),
                     LAMBDA t : t # IndentTok)

\* C1: a module whose number of entry-point markers is 0 or more than 1 is
\* never translated: the translation of such a module ends in failure.
C1_ModuleShapeFails ==
  (pc = "done" /\ Markers # 1) => result = "failure"

\* The reference table of the gate names: one control.
OneControl == [g \in {"h", "x", "y", "z", "r1", "rx", "ry", "rz"} |->
                 IF g = "r1" THEN "cu1" ELSE "c" \o g]

\* The reference table of the gate names; "" stands for failure.
Mnemonic(g, controls) ==
  CASE controls = 0 -> IF g = "r1" THEN "cu1" ELSE g
    [] controls = 1 -> IF g \in DOMAIN OneControl THEN OneControl[g] ELSE ""
    [] controls = 2 -> IF g = "x" THEN "ccx" ELSE ""
    [] OTHER -> ""

\* C2: the name translateOperatorName returns is the reference table's, for
\* every gate identifier and control count, and it fails where the table has
\* no entry.
C2_NameTable ==
  pc = "resolved" => name = Mnemonic(optor.name, optor.controls)

\* C2's case: x with two controls was resolved, to ccx.
C2_Witness ==
  pc = "resolved" /\ optor = [name |-> "x", controls |-> 2] /\ name = "ccx"

\* C3: in a scope, a lookup of a new target (or new array) returns the name
\* its old target (array) had when the operation was emitted.
C3_LinearContinuity ==
  InBody => \A p \in fwd : getOrAssignName(emitter, p[1]).name = p[2]

\* C3's case: a wire was forwarded twice, the second operation found the
\* first one's new target under the old name.
C3_Witness ==
  /\ InBody
  /\ \E p, q \in fwd : p[1] # q[1] /\ p[2] = q[2]
  /\ \A p \in fwd : Bound(emitter, p[1])

\* C4, as claimed: no two distinct values bound in the scope share a symbol.
C4_Injective ==
  InBody => \A v, w \in DOMAIN emitter.valueToName :
              v # w => emitter.valueToName[v] # emitter.valueToName[w]

\* C4, amended: two distinct values bound in the scope share a symbol only
\* when they stand for the same storage: one is the other after operations
\* that forwarded it, or both are the same element of the same array.
C4_InjectiveUpToForwarding ==
  InBody => \A v, w \in DOMAIN emitter.valueToName :
              (v # w /\ emitter.valueToName[v] = emitter.valueToName[w])
                => loc[v] = loc[w]

\* C4's case: three values are bound, two of them to one symbol.
C4_Witness ==
  /\ InBody
  /\ \E v, w, u \in DOMAIN emitter.valueToName :
       /\ v # w /\ emitter.valueToName[v] = emitter.valueToName[w]
       /\ loc[u] # loc[v]

ParamFailed == diags # <<>> /\ Last(diags) = ParamMsg

LegalityMsgs == {AdjointMsg, ClassicalMsg, ArrayArgMsg, MzTargetsMsg, RuntimeIndexMsg,
                 UnhandledMsg}

RECURSIVE TokensAfter(_, _, _)
TokensAfter(os, tok, i) ==
  IF i >= Len(os) THEN <<>>
  ELSE (IF os[i] = tok THEN <<os[i + 1]>> ELSE <<>>) \o TokensAfter(os, tok, i + 1)

RECURSIVE GateDefinitions(_, _)
GateDefinitions(m, i) ==
  IF i > Len(m) THEN <<>>
  ELSE (IF m[i].kind = "circuit" /\ ~m[i].marked THEN <<m[i].name>> ELSE <<>>)
       \o GateDefinitions(m, i + 1)

BlockTokens == {"gate ", " {\n", "}\n", IndentTok}

C8_FirstErrorWins ==
  [][ /\ diags' # <<>> => (Len(diags') = 1 /\ result' = "failure" /\ pc' = "done")
      /\ diags # <<>> => (diags' = diags /\ emitter'.os = emitter.os
                          /\ nBody' = nBody /\ pos' = pos) ]_vars

\* C8's case: an operation of a circuit body failed while operations of the
\* module were still to be visited.
C8_Witness ==
  /\ result = "failure" /\ Len(diags) = 1
  /\ nBody >= 1 /\ pos < Len(module)

StatementKind(t) ==
  CASE t = "qreg " -> "qreg"
    [] t = "creg " -> "creg"
    [] t = "measure " -> "measure"
    [] t = "reset " -> "reset"
    [] t = "callee" -> "call"
    [] OTHER -> "gate"

StatementHeads == {"qreg ", "creg ", "measure ", "reset ", "callee",
                   "x", "cx", "ccx", "rz", "crz", "u2"}

RECURSIVE Kinds(_)
Kinds(os) ==
  IF os = <<>> THEN <<>>
  ELSE (IF Head(os) \in StatementHeads THEN <<StatementKind(Head(os))>> ELSE <<>>)
       \o Kinds(Tail(os))

\* C9: as long as no operation failed, the statements of the output are, in
\* order, those of the operations visited: a qreg for an allocation, a gate
\* line for an operator, a creg then a measure for a measurement, a reset for
\* each target of a reset, and none for the other kinds.
C9_ProgramOrder ==
  diags = <<>> => Kinds(emitter.os) = stmts

\* C9's case: an allocation, an operator and a measurement were emitted.
C9_Witness ==
  diags = <<>> /\ stmts = <<"qreg", "gate", "creg", "measure">>

\* C10: a value that comes from an allocation is named after the register
\* the allocation declared: the register's name for the array, name[k] for
\* its element k (0 for a single wire), k being within the declared size;
\* the declaration has the size asked for and no two allocations declare the
\* same register.
C10_RegisterAddressing ==
  InBody =>
    /\ \A v \in DOMAIN emitter.valueToName :
         loc[v][1] \in DOMAIN decl =>
           /\ emitter.valueToName[v] =
                IF loc[v][2] = -1 THEN decl[loc[v][1]][1]
                ELSE Indexed(decl[loc[v][1]][1], loc[v][2])
           /\ loc[v][2] < decl[loc[v][1]][3]
    /\ \A r \in DOMAIN decl : decl[r][2] = ToString(decl[r][3])
    /\ \A r, q \in DOMAIN decl : r # q => decl[r][1] # decl[q][1]

\* C10's case: a wire borrowed at index 1 of an allocated array, whose name
\* went on to the new array.
C10_Witness ==
  /\ InBody
  /\ \E v, a \in DOMAIN emitter.valueToName :
       /\ loc[v][1] \in DOMAIN decl /\ loc[v][2] = 1
       /\ a # loc[v][1] /\ loc[a] = <<loc[v][1], -1>>

\* The output of the scope being translated, without its indentation: what
\* was written since the entry point's body, or the last gate block, began.
ScopeStart ==
  IF pc = "entry" THEN entryStart
  ELSE CHOOSE i \in 1..Len(emitter.os) :
         /\ emitter.os[i] = "gate "
         /\ \A j \in (i + 1)..Len(emitter.os) : emitter.os[j] # "gate "
ScopeText ==
  SelectSeq(SubSeq(emitter.os, ScopeStart + 1, Len(emitter.os)), LAMBDA t : t # IndentTok)
At(tok) == { j \in 1..Len(ScopeText) : ScopeText[j] = tok }
Destinations == OfKind(live, "bits")

\* C11: in a scope, every classical destination of a measurement with one
\* target is declared by one creg statement, of the vector's width (1 for a
\* single bit), the measure statement that writes to the destination follows
\* the declaration, the destination is declared once, and the names of the
\* creg declarations differ from one another and from the qreg names.
C11_MeasurementEmission ==
  InBody =>
    /\ \A b \in Destinations :
         \E j \in At("creg ") :
           /\ emitter.valueToName[b] =
                IF live[b].n > 0 THEN ScopeText[j + 1] ELSE Indexed(ScopeText[j + 1], 0)
           /\ ScopeText[j + 3] = ToString(IF live[b].n > 0 THEN live[b].n ELSE 1)
           /\ j + 9 <= Len(ScopeText)
           /\ ScopeText[j + 5] = "measure "
           /\ ScopeText[j + 7] = " -> "
           /\ ScopeText[j + 8] = emitter.valueToName[b]
           /\ \A k \in At("creg ") : ScopeText[k + 1] = ScopeText[j + 1] => k = j
    /\ Cardinality(At("creg ")) = Cardinality(Destinations)
    /\ Cardinality(At("measure ")) = Cardinality(Destinations)
    /\ \A j \in At("creg ") : \A k \in At("creg ") \cup At("qreg ") :
         k # j => ScopeText[k + 1] # ScopeText[j + 1]

\* C11's case: an array of two wires was measured twice in a scope, into two
\* registers of two bits.
C11_Witness ==
  /\ InBody
  /\ Cardinality(Destinations) = 2
  /\ \A b \in Destinations : live[b].n = 2
  /\ Cardinality(At("creg ")) = 2

====
